---- MODULE Spec2Model ----
(***************************************************************************)
(* A model of ExcelCSV (src/ExcelCSV.py) and of the record filter          *)
(* matches_fields (src/filters.py).                                        *)
(*                                                                         *)
(* A text is a sequence of one-character strings.  A row is a sequence of  *)
(* texts.  A file is a record [exists, rows]: the rows the csv reader      *)
(* yields for it.  A record (a Python dict) is a sequence of entries       *)
(* [k, v] with distinct keys, in insertion order.  None is <<"None">>, and *)
(* the list DictReader stores under the key None is <<"list", l>>; both    *)
(* differ from every text, whose elements are single characters.           *)
(***************************************************************************)
EXTENDS Integers, Sequences, FiniteSets, TLC

VARIABLES
    fs,          \* the file system: path -> [exists, rows]
    path,        \* self.path
    fieldnames,  \* self.fieldnames
    last,        \* the latest call: operation, arguments, store before it, result
    prev,        \* the call before the latest
    nops,        \* the number of calls made on the store
    pc,          \* the position inside _update_fieldnames_in_file
    nread        \* the rows the copy loop has read

vars == <<fs, path, fieldnames, last, prev, nops, pc, nread>>

-----------------------------------------------------------------------------
(* Bounds of the model.                                                    *)

MaxOps == 2

-----------------------------------------------------------------------------
(* Python values.                                                          *)

NoneT == <<"None">>

ListOf(l) == <<"list", l>>

IsStr(v) == v # NoneT /\ (Len(v) = 0 \/ v[1] # "list")

Min(a, b) == IF a < b THEN a ELSE b

Range(s) == {s[i] : i \in 1..Len(s)}

(* list.index: the first position of x in s, 0 when x is not in s *)
IndexOf(s, x) ==
    IF \E i \in 1..Len(s) : s[i] = x
    THEN CHOOSE i \in 1..Len(s) : s[i] = x /\ \A j \in 1..(i - 1) : s[j] # x
    ELSE 0

(* list.insert(index, x) with a 0-based index *)
InsertAt(s, index, x) == SubSeq(s, 1, index) \o <<x>> \o SubSeq(s, index + 1, Len(s))

(* list.remove(x): drops the first occurrence *)
RemoveFirst(s, x) ==
    LET i == IndexOf(s, x)
    IN SubSeq(s, 1, i - 1) \o SubSeq(s, i + 1, Len(s))

(* str.split(delimiter) for a non-empty delimiter *)
RECURSIVE Split(_, _)
Split(s, d) ==
    LET hits == {i \in 1..(Len(s) - Len(d) + 1) : SubSeq(s, i, i + Len(d) - 1) = d}
    IN IF hits = {}
       THEN <<s>>
       ELSE LET i == CHOOSE h \in hits : \A g \in hits : h <= g
            IN <<SubSeq(s, 1, i - 1)>> \o Split(SubSeq(s, i + Len(d), Len(s)), d)

-----------------------------------------------------------------------------
(* Dictionaries.                                                           *)

Keys(rec) == {rec[i].k : i \in 1..Len(rec)}

HasKey(rec, key) == \E i \in 1..Len(rec) : rec[i].k = key

Get(rec, key) == rec[CHOOSE i \in 1..Len(rec) : rec[i].k = key].v

(* d[key] = v: replaces the value of an existing key in place, else appends *)
SetItem(rec, key, v) ==
    IF HasKey(rec, key)
    THEN [i \in 1..Len(rec) |-> IF rec[i].k = key THEN [k |-> key, v |-> v] ELSE rec[i]]
    ELSE Append(rec, [k |-> key, v |-> v])

(* del d[key] *)
DelItem(rec, key) == SelectSeq(rec, LAMBDA e : e.k # key)

(* dict equality: the same keys with the same values, in any order *)
DictEq(r1, r2) ==
    /\ Keys(r1) = Keys(r2)
    /\ \A key \in Keys(r1) : Get(r1, key) = Get(r2, key)

DictListEq(l1, l2) ==
    /\ Len(l1) = Len(l2)
    /\ \A i \in 1..Len(l1) : DictEq(l1[i], l2[i])

-----------------------------------------------------------------------------
(* The csv codec at the level of rows.                                     *)

Absent == [exists |-> FALSE, rows |-> <<>>]

File(rows) == [exists |-> TRUE, rows |-> rows]

(* dict(zip(fieldnames, row)) *)
RECURSIVE ZipDict(_, _, _)
ZipDict(fn, row, n) ==
    IF n = 0 THEN <<>>
    ELSE SetItem(ZipDict(fn, row, n - 1), fn[n], row[n])

(* for key in fieldnames[lr:]: d[key] = restval *)
RECURSIVE FillRest(_, _, _)
FillRest(d, fn, from) ==
    IF from > Len(fn) THEN d
    ELSE FillRest(SetItem(d, fn[from], NoneT), fn, from + 1)

(* csv.DictReader.__next__ for one non-blank row *)
RowToDict(fn, row) ==
    LET lf == Len(fn)
        lr == Len(row)
        d == ZipDict(fn, row, Min(lf, lr))
    IN IF lf < lr THEN SetItem(d, NoneT, ListOf(SubSeq(row, lf + 1, lr)))
       ELSE IF lf > lr THEN FillRest(d, fn, lr + 1)
       ELSE d

(* csv.DictReader over a file: the first row is the header, blank rows are skipped *)
DictReaderRows(rows) ==
    IF rows = <<>> THEN <<>>
    ELSE LET data == SelectSeq(Tail(rows), LAMBDA r : r # <<>>)
         IN [i \in 1..Len(data) |-> RowToDict(rows[1], data[i])]

(* a writer that also rejects a record lacking a field of the schema *)
WrongFieldsStrict(rec, fn) == (Keys(rec) \ Range(fn)) \cup (Range(fn) \ Keys(rec))

(* csv.DictWriter._dict_to_list: a key outside fieldnames is an error *)
WrongFields(rec, fn) == Keys(rec) \ Range(fn)

(* rowdict.get(key, restval), and the writer's rendering of None as '' *)
CellOf(rec, key) ==
    IF HasKey(rec, key)
    THEN (IF Get(rec, key) = NoneT THEN <<>> ELSE Get(rec, key))
    ELSE <<>>

DictToList(rec, fn) == [i \in 1..Len(fn) |-> CellOf(rec, fn[i])]

(* the number of leading records writerows encodes before one raises *)
GoodPrefix(records, fn) ==
    IF \E i \in 1..Len(records) : WrongFields(records[i], fn) # {}
    THEN (CHOOSE i \in 1..Len(records) :
              /\ WrongFields(records[i], fn) # {}
              /\ \A j \in 1..(i - 1) : WrongFields(records[j], fn) = {}) - 1
    ELSE Len(records)

(* csv.DictWriter.writerows: the rows that reach the writer *)
RowsOf(records, fn) == [i \in 1..GoodPrefix(records, fn) |-> DictToList(records[i], fn)]

-----------------------------------------------------------------------------
(* The store: the file system, self.path and self.fieldnames.  Operations  *)
(* are functions from a store (and arguments) to a store with a result:    *)
(* res is "ok" or the name of the exception raised, ret the value returned.*)

NoPath == "None"

Store(f, p, fn) == [fs |-> f, path |-> p, fieldnames |-> fn]

Outcome(f, p, fn, res, ret) ==
    [fs |-> f, path |-> p, fieldnames |-> fn, res |-> res, ret |-> ret]

Ok(s) == Outcome(s.fs, s.path, s.fieldnames, "ok", <<>>)

Raise(s, exc) == Outcome(s.fs, s.path, s.fieldnames, exc, <<>>)

StoreOf(o) == Store(o.fs, o.path, o.fieldnames)

(* a synchronisation that writes over the original instead of a temporary file *)
TempPathInPlace(p) == p

(* self.path + '_temp' *)
TempPath(p) == IF p = "p" THEN "p_temp" ELSE "q_temp"

(* a copy loop that never clears first_row *)
HeaderSwapEveryRow(rows, fn) == [i \in 1..Len(rows) |-> fn]

(* the rows the temporary file holds after the copy loop *)
HeaderSwap(rows, fn) ==
    [i \in 1..Len(rows) |-> IF i = 1 THEN fn ELSE rows[i]]

(* _update_fieldnames_in_file, run to completion without an I/O failure *)
UpdateFieldnamesInFile(s) ==
    IF ~s.fs[s.path].exists
    THEN s
    ELSE [s EXCEPT !.fs = [s.fs EXCEPT
              ![s.path] = File(HeaderSwap(s.fs[s.path].rows, s.fieldnames)),
              ![TempPath(s.path)] = Absent]]

(* _get_fieldnames_from_file; an empty file makes reader.__next__() raise *)
GetFieldnamesFromFile(s) ==
    IF ~s.fs[s.path].exists THEN Outcome(s.fs, s.path, <<>>, "ok", <<>>)
    ELSE IF s.fs[s.path].rows = <<>> THEN Raise(s, "StopIteration")
    ELSE Outcome(s.fs, s.path, s.fs[s.path].rows[1], "ok", <<>>)

(* read *)
Read(s) ==
    IF s.fs[s.path].exists THEN DictReaderRows(s.fs[s.path].rows) ELSE <<>>

(* a write that omits writeheader() *)
WriteNoHeader(s, records, output_path, flush) ==
    LET p == IF output_path # NoPath THEN output_path ELSE s.path
        good == GoodPrefix(records, s.fieldnames) = Len(records)
        written == RowsOf(records, s.fieldnames)
        disk == IF good \/ flush THEN written ELSE <<>>
    IN Outcome([s.fs EXCEPT ![p] = File(disk)], p, s.fieldnames,
               IF good THEN "ok" ELSE "ValueError", <<>>)

(* write: opening with 'w' truncates the file; when a record raises, the   *)
(* rows written so far reach the disk if the unclosed handle is flushed    *)
Write(s, records, output_path, flush) ==
    LET p == IF output_path # NoPath THEN output_path ELSE s.path
        good == GoodPrefix(records, s.fieldnames) = Len(records)
        written == <<s.fieldnames>> \o RowsOf(records, s.fieldnames)
        disk == IF good \/ flush THEN written ELSE <<>>
    IN Outcome([s.fs EXCEPT ![p] = File(disk)], p, s.fieldnames,
               IF good THEN "ok" ELSE "ValueError", <<>>)

(* append: opening with 'a' creates the file and keeps its rows *)
AppendRecords(s, records, flush) ==
    LET good == GoodPrefix(records, s.fieldnames) = Len(records)
        old == s.fs[s.path].rows
        added == IF good \/ flush THEN RowsOf(records, s.fieldnames) ELSE <<>>
    IN Outcome([s.fs EXCEPT ![s.path] = File(old \o added)], s.path, s.fieldnames,
               IF good THEN "ok" ELSE "ValueError", <<>>)

(* set_path: the comparison follows the assignment, so nothing is moved *)
SetPath(s, p) == Ok([s EXCEPT !.path = p])

(* update_fieldnames_from_data; data is [single, recs] *)
UpdateFieldnamesFromData(s, data) ==
    IF data.single
    THEN [s EXCEPT !.fieldnames = [i \in 1..Len(data.recs[1]) |-> data.recs[1][i].k]]
    ELSE IF Len(data.recs) > 0
    THEN [s EXCEPT !.fieldnames = [i \in 1..Len(data.recs[1]) |-> data.recs[1][i].k]]
    ELSE s

(* for x in range(len(args)-1, -1, -1): fieldnames.insert(index, args[x]) *)
RECURSIVE InsertBackward(_, _, _, _)
InsertBackward(fn, index, args, n) ==
    IF n = 0 THEN fn
    ELSE InsertBackward(InsertAt(fn, index, args[n]), index, args, n - 1)

(* prepend_fields *)
PrependFieldnames(fn, args) == InsertBackward(fn, 0, args, Len(args))

PrependFields(s, args) ==
    Ok(UpdateFieldnamesInFile([s EXCEPT !.fieldnames = PrependFieldnames(s.fieldnames, args)]))

(* append_fields *)
AppendFieldnames(fn, args) == fn \o args

AppendFields(s, args) ==
    Ok(UpdateFieldnamesInFile([s EXCEPT !.fieldnames = AppendFieldnames(s.fieldnames, args)]))

(* insert_fields_after: index + 1 is the 1-based position of the target *)
InsertFieldnamesAfter(fn, target_field, args) ==
    InsertBackward(fn, IndexOf(fn, target_field), args, Len(args))

InsertFieldsAfter(s, target_field, args) ==
    IF IndexOf(s.fieldnames, target_field) = 0
    THEN Raise(s, "ValueError")
    ELSE Ok(UpdateFieldnamesInFile(
             [s EXCEPT !.fieldnames = InsertFieldnamesAfter(s.fieldnames, target_field, args)]))

(* a remove_field that skips a field the schema does not have and writes *)
RemoveFieldTolerant(s, field, output_path, flush) ==
    LET input == Read(s)
    IN Write([s EXCEPT !.fieldnames = IF IndexOf(s.fieldnames, field) = 0 THEN s.fieldnames
                                      ELSE RemoveFirst(s.fieldnames, field)],
             [i \in 1..Len(input) |-> DelItem(input[i], field)],
             output_path, flush)

(* remove_field *)
RemoveField(s, field, output_path, flush) ==
    LET input == Read(s)
    IN IF \E i \in 1..Len(input) : ~HasKey(input[i], field)
       THEN Raise(s, "KeyError")
       ELSE IF IndexOf(s.fieldnames, field) = 0
       THEN Raise(s, "ValueError")
       ELSE Write([s EXCEPT !.fieldnames = RemoveFirst(s.fieldnames, field)],
                  [i \in 1..Len(input) |-> DelItem(input[i], field)],
                  output_path, flush)

-----------------------------------------------------------------------------
(* convert_choice_field_to_boolean_field and its three helpers.            *)

(* list.append of the tokens not yet collected, skipping the empty token *)
RECURSIVE AddChoices(_, _, _)
AddChoices(possible_choices, tokens, j) ==
    IF j > Len(tokens) THEN possible_choices
    ELSE AddChoices(IF tokens[j] # <<>> /\ tokens[j] \notin Range(possible_choices)
                    THEN Append(possible_choices, tokens[j])
                    ELSE possible_choices,
                    tokens, j + 1)

(* _get_possible_choices over records whose field holds a text *)
RECURSIVE GetPossibleChoices(_, _, _, _)
GetPossibleChoices(list_of_records, original_field, delimiter, i) ==
    IF i = 0 THEN <<>>
    ELSE AddChoices(GetPossibleChoices(list_of_records, original_field, delimiter, i - 1),
                    Split(Get(list_of_records[i], original_field), delimiter), 1)

(* record[original_field] raises KeyError, and .split AttributeError *)
FieldError(list_of_records, original_field) ==
    IF \E i \in 1..Len(list_of_records) :
           \/ ~HasKey(list_of_records[i], original_field)
           \/ ~IsStr(Get(list_of_records[i], original_field))
    THEN LET i == CHOOSE n \in 1..Len(list_of_records) :
                      /\ \/ ~HasKey(list_of_records[n], original_field)
                         \/ ~IsStr(Get(list_of_records[n], original_field))
                      /\ \A m \in 1..(n - 1) :
                             /\ HasKey(list_of_records[m], original_field)
                             /\ IsStr(Get(list_of_records[m], original_field))
         IN IF HasKey(list_of_records[i], original_field)
            THEN "AttributeError" ELSE "KeyError"
    ELSE "ok"

(* _get_new_fields: the question mark appended to each choice *)
GetNewFields(possible_choices) ==
    [x \in 1..Len(possible_choices) |-> possible_choices[x] \o <<"?">>]

(* inner loops that do not test for the null symbol *)
RECURSIVE AddBooleanFieldsNoNull(_, _, _, _, _, _, _, _, _)
AddBooleanFieldsNoNull(record, original_field, possible_choices, new_fields, delimiter, checked_symbol, unchecked_symbol, null_symbol, j) ==
    IF j = 0 THEN record
    ELSE LET done == AddBooleanFieldsNoNull(record, original_field, possible_choices,
                                            new_fields, delimiter, checked_symbol,
                                            unchecked_symbol, null_symbol, j - 1)
         IN IF possible_choices[j] \in Range(Split(Get(record, original_field), delimiter))
            THEN SetItem(done, new_fields[j], checked_symbol)
            ELSE SetItem(done, new_fields[j], unchecked_symbol)

(* the inner loops of _add_boolean_fields_to_records for one record *)
RECURSIVE AddBooleanFields(_, _, _, _, _, _, _, _, _)
AddBooleanFields(record, original_field, possible_choices, new_fields, delimiter, checked_symbol, unchecked_symbol, null_symbol, j) ==
    IF j = 0 THEN record
    ELSE LET done == AddBooleanFields(record, original_field, possible_choices, new_fields,
                                      delimiter, checked_symbol, unchecked_symbol,
                                      null_symbol, j - 1)
         IN IF Get(record, original_field) = null_symbol
            THEN SetItem(done, new_fields[j], <<>>)
            ELSE IF possible_choices[j] \in Range(Split(Get(record, original_field), delimiter))
            THEN SetItem(done, new_fields[j], checked_symbol)
            ELSE SetItem(done, new_fields[j], unchecked_symbol)

(* the first exception of _add_boolean_fields_to_records: record[field]    *)
(* raises KeyError, .split AttributeError and possible_choices[j] IndexError *)
RECURSIVE AddBooleanError(_, _, _, _, _, _)
AddBooleanError(list_of_records, original_field, possible_choices, new_fields, null_symbol, i) ==
    IF i > Len(list_of_records) THEN "ok"
    ELSE IF ~HasKey(list_of_records[i], original_field) THEN "KeyError"
    ELSE IF Get(list_of_records[i], original_field) = null_symbol
    THEN AddBooleanError(list_of_records, original_field, possible_choices, new_fields,
                         null_symbol, i + 1)
    ELSE IF ~IsStr(Get(list_of_records[i], original_field)) THEN "AttributeError"
    ELSE IF Len(new_fields) > Len(possible_choices) THEN "IndexError"
    ELSE AddBooleanError(list_of_records, original_field, possible_choices, new_fields,
                         null_symbol, i + 1)

(* _add_boolean_fields_to_records, when no record raises *)
AddBooleanFieldsToRecords(list_of_records, original_field, possible_choices, new_fields, delimiter, checked_symbol, unchecked_symbol, null_symbol) ==
    [i \in 1..Len(list_of_records) |->
        AddBooleanFields(list_of_records[i], original_field, possible_choices, new_fields,
                         delimiter, checked_symbol, unchecked_symbol, null_symbol,
                         Len(new_fields))]

(* convert_choice_field_to_boolean_field; possible_choices and             *)
(* new_field_names are [given, v], given being FALSE for None              *)
ConvertChoiceFieldToBooleanField(s, original_field, possible_choices, new_field_names, delimiter, checked_symbol, unchecked_symbol, null_symbol, flush) ==
    LET list_of_records == Read(s)
        ferr == FieldError(list_of_records, original_field)
    IN IF ~possible_choices.given /\ ferr # "ok"
       THEN Raise(s, ferr)
       ELSE
       LET choices == IF possible_choices.given THEN possible_choices.v
                      ELSE GetPossibleChoices(list_of_records, original_field, delimiter,
                                              Len(list_of_records))
           names == IF new_field_names.given THEN new_field_names.v
                    ELSE GetNewFields(choices)
           ins == InsertFieldsAfter(s, original_field, names)
       IN IF ins.res # "ok" THEN ins
          ELSE IF AddBooleanError(list_of_records, original_field, choices, names,
                                  null_symbol, 1) # "ok"
          THEN Raise(StoreOf(ins), AddBooleanError(list_of_records, original_field, choices,
                                                   names, null_symbol, 1))
          ELSE Write(StoreOf(ins),
                     AddBooleanFieldsToRecords(list_of_records, original_field, choices, names,
                                               delimiter, checked_symbol, unchecked_symbol,
                                               null_symbol),
                     NoPath, flush)

-----------------------------------------------------------------------------
(* filter with the predicate matches_fields of filters.py.                 *)

IsList(v) == Len(v) = 2 /\ v[1] = "list"

(* matches_fields over records that have every field of fields_dict *)
MatchesFields(record, fields_dict) ==
    \A n \in 1..Len(fields_dict) :
        IF IsList(fields_dict[n].v)
        THEN Get(record, fields_dict[n].k) \in Range(fields_dict[n].v[2])
        ELSE Get(record, fields_dict[n].k) = fields_dict[n].v

(* record[field] raises KeyError once all earlier fields have matched *)
MatchRaises(record, fields_dict) ==
    \E n \in 1..Len(fields_dict) :
        /\ ~HasKey(record, fields_dict[n].k)
        /\ \A m \in 1..(n - 1) : HasKey(record, fields_dict[m].k)
        /\ MatchesFields(record, SubSeq(fields_dict, 1, n - 1))

(* filter(matches_fields, fields_dict, output_path=...) *)
Filter(s, fields_dict, output_path, flush) ==
    LET input == Read(s)
    IN IF \E i \in 1..Len(input) : MatchRaises(input[i], fields_dict)
       THEN Raise(s, "KeyError")
       ELSE Write(s, SelectSeq(input, LAMBDA r : MatchesFields(r, fields_dict)),
                  output_path, flush)

-----------------------------------------------------------------------------
(* __init__; records is [given, ordered, v] and names is [given, v].       *)

Construct(f, p, records, names, flush) ==
    LET s == Store(f, p, <<>>)
    IN IF ~records.given /\ ~names.given
       THEN GetFieldnamesFromFile(s)
       ELSE IF records.given /\ ~names.given
       THEN (IF Len(records.v) = 0 THEN Ok(s)
             ELSE IF records.ordered
             THEN Write(UpdateFieldnamesFromData(s, [single |-> FALSE, recs |-> records.v]),
                        records.v, NoPath, flush)
             ELSE Raise(s, "SyntaxError"))
       ELSE IF ~records.given /\ names.given
       THEN Ok(UpdateFieldnamesInFile([s EXCEPT !.fieldnames = names.v]))
       ELSE Write([s EXCEPT !.fieldnames = names.v], records.v, NoPath, flush)

-----------------------------------------------------------------------------
(* The inputs the operations are called with.                              *)

Paths == {"p", "q"}

AllPaths == {"p", "q", "p_temp", "q_temp"}

FieldA == <<"a">>
FieldB == <<"b">>
FieldX == <<"X">>
FieldY == <<"Y">>
FieldZ == <<"Z">>
FieldP == <<"P">>
FieldQ == <<"Q">>

(* the defaults of convert_choice_field_to_boolean_field *)
DefaultDelimiter == <<",", " ">>
DefaultChecked == <<"Y">>
DefaultUnchecked == <<"N">>
DefaultNull == <<"N", "o", " ", "d", "a", "t", "a">>

Cat == <<"C">>
Dog == <<"D">>
Bird == <<"B">>

Join(x, y) == x \o DefaultDelimiter \o y

Digits == <<"0", "1", "2", "3", "4", "5", "6", "7", "8", "9">>

ValA(i) == <<Digits[(i % 10) + 1]>>

ValB(i) == IF i = 1 THEN <<>> ELSE <<Digits[((i + 4) % 10) + 1]>>

RecordA(fn) == ZipDict(fn, [i \in 1..Len(fn) |-> ValA(i)], Len(fn))

RecordB(fn) == ZipDict(fn, [i \in 1..Len(fn) |-> ValB(i)], Len(fn))

(* records for write and append: complete, one key short, one key over *)
Short(fn) == DelItem(RecordB(fn), fn[Len(fn)])

Over(fn) == SetItem(RecordB(fn), FieldZ, <<"9">>)

WriteInputs(fn) ==
    {[records |-> <<>>, out |-> NoPath],
     [records |-> <<RecordA(fn)>>, out |-> "q"],
     [records |-> <<RecordB(fn), RecordA(fn)>>, out |-> NoPath],
     [records |-> <<RecordA(fn), Over(fn), RecordA(fn)>>, out |-> NoPath]}
    \cup (IF fn = <<>> THEN {}
          ELSE {[records |-> <<RecordA(fn), Short(fn)>>, out |-> NoPath]})

AppendInputs(fn) == {<<RecordB(fn), RecordA(fn)>>, <<RecordA(fn), Over(fn)>>}

(* what may be on disk at "p" before the store is constructed *)
InitFiles ==
    {Absent,
     File(<<>>),
     File(<< <<FieldA, FieldB>> >>),
     File(<< <<FieldA, FieldB>>, <<Join(Dog, Cat), ValA(1)>>, <<DefaultNull, ValA(2)>>,
             <<<<>>, ValA(3)>>, <<Join(Cat, Bird), ValA(4)>> >>)}

NotGiven == [given |-> FALSE, ordered |-> FALSE, v |-> <<>>]

Given(v) == [given |-> TRUE, ordered |-> FALSE, v |-> v]

Ordered(v) == [given |-> TRUE, ordered |-> TRUE, v |-> v]

(* the arguments of the constructor: records and fieldnames *)
InitArgs ==
    {[records |-> NotGiven, names |-> NotGiven],
     [records |-> NotGiven, names |-> Given(<<>>)],
     [records |-> NotGiven, names |-> Given(<<FieldA>>)],
     [records |-> NotGiven, names |-> Given(<<FieldA, FieldB>>)],
     [records |-> NotGiven, names |-> Given(<<FieldA, FieldB, FieldX>>)],
     [records |-> Ordered(<<>>), names |-> NotGiven],
     [records |-> Ordered(<<RecordA(<<FieldA, FieldB>>)>>), names |-> NotGiven],
     [records |-> Given(<<RecordB(<<FieldA, FieldB>>)>>), names |-> NotGiven],
     [records |-> Given(<<RecordB(<<FieldA, FieldB>>), RecordA(<<FieldA, FieldB>>)>>),
      names |-> Given(<<FieldA, FieldB>>)]}

InsertArgs == {<<FieldX>>, <<FieldX, FieldY>>}

InsertAfterInputs ==
    {[field |-> FieldA, names |-> <<FieldX>>],
     [field |-> FieldB, names |-> <<FieldX>>],
     [field |-> FieldA, names |-> <<FieldX, FieldY>>],
     [field |-> FieldZ, names |-> <<FieldX>>]}

RemoveInputs ==
    {[field |-> FieldA, out |-> NoPath],
     [field |-> FieldX, out |-> NoPath],
     [field |-> FieldX, out |-> "q"],
     [field |-> FieldZ, out |-> NoPath],
     [field |-> FieldZ, out |-> "q"]}

DataInputs ==
    {[single |-> TRUE, recs |-> <<RecordA(<<FieldB, FieldA>>)>>],
     [single |-> FALSE, recs |-> <<>>]}

FilterInputs ==
    {[fields_dict |-> << [k |-> FieldB, v |-> ValA(1)] >>, out |-> NoPath],
     [fields_dict |-> << [k |-> FieldA, v |-> ListOf(<<DefaultNull, Join(Dog, Cat), <<>>>>)] >>,
      out |-> "q"],
     [fields_dict |-> << [k |-> FieldA, v |-> Join(Dog, Cat)], [k |-> FieldX, v |-> <<>>] >>,
      out |-> NoPath]}

ChoiceInputs ==
    {[choices |-> NotGiven, names |-> NotGiven],
     [choices |-> Given(<<Cat, Dog>>), names |-> NotGiven],
     [choices |-> Given(<<Dog, Cat>>), names |-> Given(<<FieldP, FieldQ>>)]}

-----------------------------------------------------------------------------
(* The state machine: every public method is one action.                   *)

Cur == Store(fs, path, fieldnames)

Call(op, args, pre, o) ==
    [op |-> op, args |-> args, pre |-> pre, res |-> o.res, ret |-> o.ret]

NoCall == [op |-> "none", args |-> <<>>, pre |-> <<>>, res |-> "ok", ret |-> <<>>]

InitFs(f) == [x \in AllPaths |-> IF x = "p" THEN f ELSE Absent]

(* the store after ExcelCSV(path, records, fieldnames) returned *)
Init ==
    \E f \in InitFiles, a \in InitArgs, flush \in BOOLEAN :
        LET o == Construct(InitFs(f), "p", a.records, a.names, flush)
        IN /\ o.res = "ok"
           /\ fs = o.fs
           /\ path = o.path
           /\ fieldnames = o.fieldnames
           /\ last = Call("init", a,
                          Store(InitFs(f), "p", <<>>), o)
           /\ prev = NoCall
           /\ nops = 0
           /\ pc = "idle"
           /\ nread = 0

Returns(op, args, o) ==
    /\ pc = "idle"
    /\ nops < MaxOps
    /\ fs' = o.fs
    /\ path' = o.path
    /\ fieldnames' = o.fieldnames
    /\ last' = Call(op, args, Cur, o)
    /\ prev' = last
    /\ nops' = nops + 1
    /\ UNCHANGED <<pc, nread>>

DoPrependFields ==
    \E args \in InsertArgs :
        Returns("prepend_fields", [names |-> args], PrependFields(Cur, args))

DoAppendFields ==
    \E args \in {<<FieldX, FieldY>>} :
        Returns("append_fields", [names |-> args], AppendFields(Cur, args))

DoInsertFieldsAfter ==
    \E c \in InsertAfterInputs :
        LET target == c.field
            args == c.names
        IN Returns("insert_fields_after", [field |-> target, names |-> args],
                InsertFieldsAfter(Cur, target, args))

DoRemoveField ==
    \E c \in RemoveInputs, flush \in BOOLEAN :
        LET field == c.field
            out == c.out
        IN Returns("remove_field", [field |-> field, out |-> out],
                RemoveField(Cur, field, out, flush))

DoRead ==
    Returns("read", <<>>, Outcome(fs, path, fieldnames, "ok", Read(Cur)))

DoWrite ==
    \E c \in WriteInputs(fieldnames), flush \in BOOLEAN :
        LET records == c.records
            out == c.out
        IN Returns("write", [records |-> records, out |-> out],
                Write(Cur, records, out, flush))

DoAppend ==
    \E records \in AppendInputs(fieldnames), flush \in BOOLEAN :
        Returns("append", [records |-> records], AppendRecords(Cur, records, flush))

DoSetPath ==
    \E p \in Paths :
        Returns("set_path", [path |-> p], SetPath(Cur, p))

DoUpdateFieldnamesFromData ==
    \E data \in DataInputs :
        Returns("update_fieldnames_from_data", [data |-> data],
                Ok(UpdateFieldnamesFromData(Cur, data)))

DoConvertChoiceField ==
    \E c \in ChoiceInputs, flush \in BOOLEAN :
        Returns("convert_choice_field_to_boolean_field",
                [field |-> FieldA, choices |-> c.choices, names |-> c.names],
                ConvertChoiceFieldToBooleanField(Cur, FieldA, c.choices, c.names,
                    DefaultDelimiter, DefaultChecked, DefaultUnchecked, DefaultNull, flush))

DoFilter ==
    \E c \in FilterInputs, flush \in BOOLEAN :
        LET fields_dict == c.fields_dict
            out == c.out
        IN Returns("filter", [fields_dict |-> fields_dict, out |-> out],
                Filter(Cur, fields_dict, out, flush))

Next ==
    \/ DoPrependFields
    \/ DoAppendFields
    \/ DoInsertFieldsAfter
    \/ DoRemoveField
    \/ DoRead
    \/ DoWrite
    \/ DoAppend
    \/ DoSetPath
    \/ DoUpdateFieldnamesFromData
    \/ DoConvertChoiceField
    \/ DoFilter

Spec == Init /\ [][Next]_vars

-----------------------------------------------------------------------------
(* _update_fieldnames_in_file statement by statement, with I/O failures.   *)
(* pc names the statement about to run; a failure raises OSError out of    *)
(* the call and leaves the files as the statements before it left them.    *)

Running == [res |-> "running", ret |-> <<>>]

Begins(op, args, fn) ==
    /\ pc = "idle"
    /\ nops < MaxOps
    /\ fieldnames' = fn
    /\ last' = Call(op, args, Cur, Running)
    /\ prev' = last
    /\ nops' = nops + 1
    /\ pc' = "open_in"
    /\ UNCHANGED <<fs, path, nread>>

BeginPrependFields ==
    \E args \in InsertArgs :
        Begins("prepend_fields", [names |-> args], PrependFieldnames(fieldnames, args))

BeginAppendFields ==
    \E args \in InsertArgs :
        Begins("append_fields", [names |-> args], AppendFieldnames(fieldnames, args))

BeginInsertFieldsAfter ==
    \E c \in InsertAfterInputs :
        /\ IndexOf(fieldnames, c.field) # 0
        /\ Begins("insert_fields_after", c, InsertFieldnamesAfter(fieldnames, c.field, c.names))

(* fieldnames.index(target_field) raises before anything is changed *)
InsertFieldsAfterRaises ==
    \E c \in InsertAfterInputs :
        /\ IndexOf(fieldnames, c.field) = 0
        /\ Returns("insert_fields_after", c, Raise(Cur, "ValueError"))

(* open(self.path, 'r'): FileNotFoundError ends the call without an error *)
OpenInfile ==
    /\ pc = "open_in"
    /\ IF fs[path].exists
       THEN pc' = "open_out" /\ UNCHANGED last
       ELSE pc' = "idle" /\ last' = [last EXCEPT !.res = "ok"]
    /\ UNCHANGED <<fs, path, fieldnames, prev, nops, nread>>

(* open(self.path+'_temp', 'w') creates or truncates the temporary file *)
OpenOutfile ==
    /\ pc = "open_out"
    /\ fs' = [fs EXCEPT ![TempPath(path)] = File(<<>>)]
    /\ nread' = 0
    /\ pc' = "loop"
    /\ UNCHANGED <<path, fieldnames, last, prev, nops>>

(* one iteration of the copy loop *)
CopyRow ==
    /\ pc = "loop"
    /\ nread < Len(fs[path].rows)
    /\ fs' = [fs EXCEPT ![TempPath(path)] =
                 File(Append(fs[TempPath(path)].rows,
                             IF nread = 0 THEN fieldnames ELSE fs[path].rows[nread + 1]))]
    /\ nread' = nread + 1
    /\ UNCHANGED <<path, fieldnames, last, prev, nops, pc>>

EndLoop ==
    /\ pc = "loop"
    /\ nread = Len(fs[path].rows)
    /\ pc' = "close"
    /\ UNCHANGED <<fs, path, fieldnames, last, prev, nops, nread>>

CloseFiles ==
    /\ pc = "close"
    /\ pc' = "remove"
    /\ UNCHANGED <<fs, path, fieldnames, last, prev, nops, nread>>

(* os.remove(self.path) *)
RemoveOriginal ==
    /\ pc = "remove"
    /\ fs' = [fs EXCEPT ![path] = Absent]
    /\ pc' = "rename"
    /\ UNCHANGED <<path, fieldnames, last, prev, nops, nread>>

(* os.rename(self.path+'_temp', self.path) *)
RenameTemp ==
    /\ pc = "rename"
    /\ fs' = [fs EXCEPT ![path] = fs[TempPath(path)], ![TempPath(path)] = Absent]
    /\ pc' = "idle"
    /\ last' = [last EXCEPT !.res = "ok"]
    /\ UNCHANGED <<path, fieldnames, prev, nops, nread>>

(* the statement about to run fails; ret records which one *)
IOFailure ==
    /\ pc \in {"open_in", "open_out", "loop", "close", "remove", "rename"}
    /\ last' = [last EXCEPT !.res = "OSError", !.ret = pc]
    /\ pc' = "idle"
    /\ UNCHANGED <<fs, path, fieldnames, prev, nops, nread>>

NextSync ==
    \/ BeginPrependFields
    \/ BeginAppendFields
    \/ BeginInsertFieldsAfter
    \/ InsertFieldsAfterRaises
    \/ OpenInfile
    \/ OpenOutfile
    \/ CopyRow
    \/ EndLoop
    \/ CloseFiles
    \/ RemoveOriginal
    \/ RenameTemp
    \/ IOFailure

SpecSync == Init /\ [][NextSync]_vars

-----------------------------------------------------------------------------
(* Properties of the calls.  PreFile is the backing file before the latest *)
(* call, PreRows its rows, and Target the file a rewriting call writes.    *)

PreFile == last.pre.fs[last.pre.path]

PreRows == PreFile.rows

SyncOps == {"prepend_fields", "append_fields", "insert_fields_after"}

RewriteOps == {"write", "remove_field", "filter", "convert_choice_field_to_boolean_field"}

(* the latest call is a field mutation that returned *)
FieldMutationReturned ==
    /\ last.res = "ok"
    /\ \/ last.op \in SyncOps
       \/ last.op = "init" /\ last.args.names.given /\ ~last.args.records.given

Target ==
    IF last.op \in {"write", "remove_field", "filter"} /\ last.args.out # NoPath
    THEN last.args.out
    ELSE last.pre.path

(* C1: when a field mutation returns and the backing file existed before   *)
(* the call, the first row of the file is the schema and the rows after    *)
(* the first are the rows that were there before, unchanged and in order.  *)
C1_HeaderMatchesSchema ==
    (FieldMutationReturned /\ PreFile.exists) =>
        /\ fs[path].exists
        /\ Len(fs[path].rows) >= 1
        /\ fs[path].rows[1] = fieldnames
        /\ SubSeq(fs[path].rows, 2, Len(fs[path].rows)) = SubSeq(PreRows, 2, Len(PreRows))

(* the file holds a header equal to the schema and complete data rows *)
WellFormed(s) ==
    /\ s.fs[s.path].exists
    /\ Len(s.fs[s.path].rows) >= 1
    /\ s.fs[s.path].rows[1] = s.fieldnames
    /\ \A i \in 2..Len(s.fs[s.path].rows) : Len(s.fs[s.path].rows[i]) = Len(s.fieldnames)

(* insert_fields_after(f, X) with a new name X was followed by remove_field(X) *)
InsertedThenRemoved ==
    /\ prev.op = "insert_fields_after"
    /\ prev.res = "ok"
    /\ Len(prev.args.names) = 1
    /\ prev.args.names[1] \notin Range(prev.pre.fieldnames)
    /\ WellFormed(prev.pre)
    /\ last.op = "remove_field"
    /\ last.args.field = prev.args.names[1]
    /\ last.args.out = NoPath

(* C2: insert_fields_after(f, X) followed by remove_field(X) returns and   *)
(* leaves the schema and every data row as they were before the insertion. *)
C2_InsertRemoveRestores ==
    InsertedThenRemoved =>
        /\ last.res = "ok"
        /\ fieldnames = prev.pre.fieldnames
        /\ fs[path].rows = prev.pre.fs[prev.pre.path].rows
        /\ DictListEq(Read(Cur), Read(prev.pre))

(* some record lacks a key for a field of the schema *)
LacksField(records, fn) ==
    \E i \in 1..Len(records) : Range(fn) \ Keys(records[i]) # {}

HasWrongField(records, fn) ==
    \E i \in 1..Len(records) : Keys(records[i]) \ Range(fn) # {}

(* C3 as stated: write raises when a record lacks a field of the schema.   *)
C3_MissingFieldRaises ==
    (last.op = "write" /\ LacksField(last.args.records, last.pre.fieldnames)) =>
        last.res # "ok"

(* the records the latest call handed to the DictWriter, for the calls     *)
(* whose records are known from their arguments and the file before        *)
Handed ==
    IF last.op = "write" THEN last.args.records
    ELSE IF last.op = "init" THEN last.args.records.v
    ELSE IF last.op = "filter" /\ last.res # "KeyError"
    THEN SelectSeq(Read(last.pre), LAMBDA r : MatchesFields(r, last.args.fields_dict))
    ELSE <<>>

Writes ==
    \/ last.op = "write"
    \/ last.op = "init" /\ last.args.records.given /\ Len(last.args.records.v) > 0
    \/ last.op = "filter" /\ last.res # "KeyError"

(* C3 amended: write, and a call that writes through it, raises exactly    *)
(* when a record has a key outside the schema; a record that lacks a field *)
(* is written with the empty text in that field's position.                *)
C3_MissingFieldWrittenEmpty ==
    Writes =>
        /\ last.res # "ok" <=> HasWrongField(Handed, fieldnames)
        /\ last.res = "ok" =>
              /\ Len(fs[path].rows) = Len(Handed) + 1
              /\ \A i \in 1..Len(Handed) : \A j \in 1..Len(fieldnames) :
                    ~HasKey(Handed[i], fieldnames[j]) => fs[path].rows[i + 1][j] = <<>>

C3_Witness ==
    /\ last.op = "write"
    /\ last.res = "ok"
    /\ LacksField(last.args.records, last.pre.fieldnames)
    /\ Len(fs[path].rows) = 3

(* C4: a rewriting call that fails on an existing file leaves that file    *)
(* as it was before the call.                                              *)
C4_FailedRewriteKeepsFile ==
    (last.op \in RewriteOps /\ last.res # "ok" /\ last.pre.fs[Target].exists) =>
        fs[Target] = last.pre.fs[Target]

(* C6: insert_fields_after and remove_field given a field outside the      *)
(* schema raise and leave the schema, the path and every file untouched.   *)
C6_UnknownFieldNoMutation ==
    (/\ last.op \in {"insert_fields_after", "remove_field"}
     /\ last.args.field \notin Range(last.pre.fieldnames)) =>
        /\ last.res # "ok"
        /\ fieldnames = last.pre.fieldnames
        /\ path = last.pre.path
        /\ fs = last.pre.fs

C6_Witness ==
    /\ last.op = "remove_field"
    /\ last.args.field \notin Range(last.pre.fieldnames)
    /\ last.args.out = "q"
    /\ Len(PreRows) > 1
    /\ last.res # "ok"
    /\ prev.op = "insert_fields_after"
    /\ prev.res # "ok"

-----------------------------------------------------------------------------
(* Round trip of write and read.                                           *)

(* every record has exactly the fields of the schema, with text values *)
FullRecords(records, fn) ==
    \A i \in 1..Len(records) :
        /\ Keys(records[i]) = Range(fn)
        /\ \A n \in 1..Len(records[i]) : IsStr(records[i][n].v)

(* the fields of a schema in order, each once *)
RECURSIVE Distinct(_)
Distinct(fn) ==
    IF fn = <<>> THEN <<>>
    ELSE LET init == Distinct(SubSeq(fn, 1, Len(fn) - 1))
         IN IF fn[Len(fn)] \in Range(init) THEN init ELSE Append(init, fn[Len(fn)])

KeyOrder(rec) == [n \in 1..Len(rec) |-> rec[n].k]

(* read() now returns the records R, each with its fields in schema order *)
ReadsBack(R) ==
    /\ DictListEq(Read(Cur), R)
    /\ \A i \in 1..Len(Read(Cur)) : KeyOrder(Read(Cur)[i]) = Distinct(fieldnames)

(* C7 as stated: for every schema, write(R) of complete records followed   *)
(* by read() returns R.                                                    *)
C7_RoundTripAnySchema ==
    (last.op = "write" /\ FullRecords(last.args.records, last.pre.fieldnames)) =>
        (last.res = "ok" /\ ReadsBack(last.args.records))

(* C7 amended: for every schema with at least one field, write(R) of       *)
(* complete records followed by read() returns R, in order, each record    *)
(* with the same fields in schema order and the same values.               *)
C7_RoundTripNonEmptySchema ==
    (/\ last.op = "write"
     /\ last.pre.fieldnames # <<>>
     /\ FullRecords(last.args.records, last.pre.fieldnames)) =>
        (last.res = "ok" /\ ReadsBack(last.args.records))

C7_Witness ==
    /\ last.op = "write"
    /\ last.res = "ok"
    /\ Len(last.pre.fieldnames) >= 2
    /\ FullRecords(last.args.records, last.pre.fieldnames)
    /\ Len(last.args.records) = 2
    /\ \E n \in 1..Len(last.args.records[1]) : last.args.records[1][n].v = <<>>
    /\ Len(Read(Cur)) = 2

-----------------------------------------------------------------------------
(* The expansion of a choice field.                                        *)

ConvertOp == "convert_choice_field_to_boolean_field"

(* the records of the file before the call and of the rewritten file *)
Before == Read(last.pre)

After == Read(Cur)

(* the call was given choices and names, on records that all carry the field *)
ConvertedWithChoices ==
    /\ last.op = ConvertOp
    /\ last.res = "ok"
    /\ last.args.choices.given
    /\ last.args.names.given
    /\ \A i \in 1..Len(Before) :
          /\ HasKey(Before[i], last.args.field)
          /\ IsStr(Get(Before[i], last.args.field))

(* the new fields of record i hold what the value of the choice field says *)
NewFieldsRight(i) ==
    LET value == Get(Before[i], last.args.field)
        choices == last.args.choices.v
        names == last.args.names.v
    IN \A n \in 1..Len(names) :
          /\ HasKey(After[i], names[n])
          /\ Get(After[i], names[n]) =
                IF value = DefaultNull THEN <<>>
                ELSE IF \E t \in 1..Len(Split(value, DefaultDelimiter)) :
                            Split(value, DefaultDelimiter)[t] = choices[n]
                THEN DefaultChecked
                ELSE DefaultUnchecked

OtherKeys(i) == Keys(Before[i]) \ Range(last.args.names.v)

(* C8 as stated: every rewritten record has its new fields set from the    *)
(* value of the choice field, and every other field unchanged.             *)
C8_ExpansionKeepsOtherFields ==
    ConvertedWithChoices =>
        /\ Len(After) = Len(Before)
        /\ \A i \in 1..Len(Before) :
              /\ NewFieldsRight(i)
              /\ Keys(After[i]) = Keys(Before[i]) \cup Range(last.args.names.v)
              /\ \A key \in OtherKeys(i) : Get(After[i], key) = Get(Before[i], key)

(* C8 amended: as stated, except that a field of the schema for which the  *)
(* record had no value (None, or no key) is the empty text in the          *)
(* rewritten record.                                                       *)
C8_ExpansionKeepsOtherTexts ==
    ConvertedWithChoices =>
        /\ Len(After) = Len(Before)
        /\ \A i \in 1..Len(Before) :
              /\ NewFieldsRight(i)
              /\ Keys(After[i]) = Range(fieldnames)
              /\ Keys(Before[i]) \subseteq Keys(After[i])
              /\ \A key \in Keys(After[i]) \ Range(last.args.names.v) :
                    Get(After[i], key) =
                        IF HasKey(Before[i], key) /\ Get(Before[i], key) # NoneT
                        THEN Get(Before[i], key)
                        ELSE <<>>

C8_Witness ==
    /\ ConvertedWithChoices
    /\ Len(After) = 4
    /\ \E i \in 1..4 : Get(Before[i], last.args.field) = DefaultNull
    /\ \E i \in 1..4 : Get(Before[i], last.args.field) = <<>>
    /\ \E i \in 1..4 : Get(After[i], last.args.names.v[1]) = DefaultChecked
    /\ \E i \in 1..4 : Get(After[i], last.args.names.v[1]) = DefaultUnchecked

(* the labels chosen in the records that are not the null marker, in the   *)
(* order in which they are first seen                                      *)
ChosenLabels ==
    GetPossibleChoices(SelectSeq(Before, LAMBDA r : Get(r, last.args.field) # DefaultNull),
                       last.args.field, DefaultDelimiter,
                       Len(SelectSeq(Before, LAMBDA r : Get(r, last.args.field) # DefaultNull)))

(* C9: called without choices and names, the call inserts after the choice *)
(* field one field label + "?" per label chosen in a record that is not    *)
(* the null marker, in first-seen order.                                   *)
C9_DerivedFieldsSkipNullMarker ==
    (/\ last.op = ConvertOp
     /\ last.res = "ok"
     /\ ~last.args.choices.given
     /\ ~last.args.names.given) =>
        LET at == IndexOf(last.pre.fieldnames, last.args.field)
        IN fieldnames = SubSeq(last.pre.fieldnames, 1, at)
                        \o [n \in 1..Len(ChosenLabels) |-> ChosenLabels[n] \o <<"?">>]
                        \o SubSeq(last.pre.fieldnames, at + 1, Len(last.pre.fieldnames))

-----------------------------------------------------------------------------
(* Reading after a header synchronisation.                                 *)

DataRows == SubSeq(PreRows, 2, Len(PreRows))

SyncedExisting == FieldMutationReturned /\ PreFile.exists /\ Len(PreRows) >= 1

(* C10 as stated: after a header synchronisation to S', read() returns one *)
(* record per data row, keyed by exactly the fields of S', holding the     *)
(* row's values in their positions.                                        *)
C10_ReadAfterSyncAnySchema ==
    SyncedExisting =>
        /\ Len(After) = Len(DataRows)
        /\ \A i \in 1..Len(DataRows) :
              /\ Keys(After[i]) = Range(fieldnames)
              /\ \A j \in 1..Len(DataRows[i]) :
                    j <= Len(fieldnames) /\ Get(After[i], fieldnames[j]) = DataRows[i][j]

NoDuplicates(fn) == \A i, j \in 1..Len(fn) : fn[i] = fn[j] => i = j

(* C10 amended: for data rows none of which is blank and a schema S' of    *)
(* distinct names, read() returns one record per data row; it maps S'[j]   *)
(* to the row's j-th value, maps the fields of S' beyond the row's length  *)
(* to None, and, only when the row is longer than S', carries the extra    *)
(* key None holding the row's surplus values.                              *)
C10_ReadAfterSyncPositional ==
    (/\ SyncedExisting
     /\ NoDuplicates(fieldnames)
     /\ \A i \in 1..Len(DataRows) : DataRows[i] # <<>>) =>
        /\ Len(After) = Len(DataRows)
        /\ \A i \in 1..Len(DataRows) :
              /\ Keys(After[i]) = Range(fieldnames) \cup
                    (IF Len(DataRows[i]) > Len(fieldnames) THEN {NoneT} ELSE {})
              /\ \A j \in 1..Len(fieldnames) :
                    Get(After[i], fieldnames[j]) =
                        IF j <= Len(DataRows[i]) THEN DataRows[i][j] ELSE NoneT
              /\ Len(DataRows[i]) > Len(fieldnames) =>
                    Get(After[i], NoneT) =
                        ListOf(SubSeq(DataRows[i], Len(fieldnames) + 1, Len(DataRows[i])))

C10_Witness ==
    /\ SyncedExisting
    /\ NoDuplicates(fieldnames)
    /\ Len(DataRows) = 4
    /\ Len(After) = 4
    /\ Len(fieldnames) > Len(DataRows[1])
    /\ Get(After[1], fieldnames[Len(fieldnames)]) = NoneT

-----------------------------------------------------------------------------
(* Header synchronisation under I/O failures (SpecSync).                   *)

InSync == last.op \in SyncOps

(* C5: a failure of any statement before the final rename leaves the       *)
(* original file as it was before the call, and the temporary file takes   *)
(* the original's place only once every row has been copied into it.       *)
C5_SyncFailureKeepsOriginal ==
    /\ (InSync /\ pc \in {"open_in", "open_out", "loop", "close", "remove"}) =>
           fs[path] = PreFile
    /\ (InSync /\ last.res = "OSError" /\ last.ret # "rename") =>
           fs[path] = PreFile
    /\ (InSync /\ pc \in {"remove", "rename"}) =>
           /\ nread = Len(PreRows)
           /\ fs[TempPath(path)] = File(HeaderSwap(PreRows, fieldnames))
    /\ (InSync /\ pc = "idle" /\ last.res = "ok" /\ PreFile.exists) =>
           fs[path] = File(HeaderSwap(PreRows, fieldnames))

C5_Witness ==
    /\ InSync
    /\ last.res = "OSError"
    /\ last.ret = "loop"
    /\ nread >= 2
    /\ nread < Len(PreRows)
    /\ Len(fs[TempPath(path)].rows) = nread
    /\ fs[path] = PreFile

====
